---------------------------- MODULE Spec2Model ----------------------------
(***************************************************************************)
(* The ComfyUI workflow submitter and poller, scripts/comfy_submit.py.     *)
(*                                                                         *)
(* One run of main() is a sequential process; pc is its position.  The    *)
(* server is the environment: every response (to POST /prompt, to          *)
(* GET /history/<id>, to GET /view) is drawn from a small set when the     *)
(* request is made.  Wall-clock time is the integer now; requests take     *)
(* 0..MaxLatency ticks and time.sleep(interval) takes interval ticks.      *)
(*                                                                         *)
(* The body of a history response is read by the loop one image            *)
(* descriptor at a time, in the order of the output nodes and of their     *)
(* image lists, and never looked at again.  The model draws the entry's    *)
(* status and its number of descriptors with the response, and each        *)
(* descriptor when the loop reaches it: the loop never looks ahead, so     *)
(* the runs are those of drawing the whole list with the response.         *)
(***************************************************************************)
EXTENDS Integers, Sequences, FiniteSets, TLC

(***************************************************************************)
(* Bounds of the model.                                                    *)
(***************************************************************************)
MaxTimeout == 2
MaxInterval == 1
MaxLatency == 1
MaxImages == 2

(***************************************************************************)
(* Exit statuses of the process.                                           *)
(***************************************************************************)
EXIT_COMPLETED == 0
EXIT_EXCEPTION == 1
EXIT_NO_WORKFLOW == 2
EXIT_NO_PROMPT_ID == 3
EXIT_TIMEOUT == 4

(***************************************************************************)
(* Python values.  None is Python's None (JSON null, or the result of      *)
(* dict.get on an absent key); the empty string and None are falsy.        *)
(***************************************************************************)
None == "<None>"

Truthy(v) == v # None /\ v # ""

\* a or b
Or(a, b) == IF Truthy(a) THEN a ELSE b

\* d.get(k)
DictGet(d, k) == IF k \in DOMAIN d THEN d[k] ELSE None

\* d.get(k, default)
DictGetDefault(d, k, default) == IF k \in DOMAIN d THEN d[k] ELSE default

EmptyDict == [k \in {} |-> None]

Restrict(f, S) == [k \in S |-> f[k]]

(***************************************************************************)
(* HTTP.  requests' raise_for_status() raises HTTPError for the client     *)
(* and server error statuses, 400..599, and for no other status.           *)
(***************************************************************************)
StatusCodes == {200, 304, 404, 500}

\* Status 0 stands for no response at all: the connection failed or timed out.
NoStatus == 0

\* Variant: only the server errors raise.
RaiseForStatusServerOnly(status) == status >= 500 /\ status < 600

RaiseForStatus(status) == status >= 400 /\ status < 600

(***************************************************************************)
(* The workflow document and its envelope.                                 *)
(***************************************************************************)
Graph == [n \in {"1", "2"} |-> IF n = "1" THEN "LoadImage" ELSE "SaveImage"]

Documents == {Graph, [prompt |-> Graph]}

\* if "prompt" not in payload: payload = {"prompt": payload}
\* Variant: the document is wrapped whatever its keys.
NormalizeEnvelopeAlways(document) == [prompt |-> document]

NormalizeEnvelope(document) ==
    IF "prompt" \notin DOMAIN document THEN [prompt |-> document] ELSE document

(***************************************************************************)
(* The response to POST /prompt: a status and a body, which is a JSON      *)
(* object over the keys below or is not JSON at all.                       *)
(***************************************************************************)
PostKeys == {"prompt_id", "promptid", "id"}

PostValues == {None, "", "42", "7"}

PostBodies == UNION {[S -> PostValues] : S \in SUBSET PostKeys}

PostResponses ==
    [status : StatusCodes, json : {TRUE}, body : PostBodies]
        \cup [status : StatusCodes, json : {FALSE}, body : {EmptyDict}]

NoResponse == [status |-> NoStatus, json |-> FALSE, body |-> EmptyDict]

\* Variant: the two spellings are tried in the other order.
JobIdOfSwapped(data) == Or(DictGet(data, "promptid"), DictGet(data, "prompt_id"))

\* return data.get("prompt_id") or data.get("promptid")
JobIdOf(data) == Or(DictGet(data, "prompt_id"), DictGet(data, "promptid"))

(***************************************************************************)
(* Image descriptors: JSON objects over the three view keys, any of which  *)
(* may be absent.                                                          *)
(***************************************************************************)
essential_view_keys == <<"filename", "subfolder", "type">>

EssentialSet == {essential_view_keys[i] : i \in 1..Len(essential_view_keys)}

Filenames == {"a.png", "b.png"}

Subfolders == {"", "sub"}

Types == {"output"}

WellFormed == [filename : Filenames, subfolder : Subfolders, type : Types]

BaseInfo == [filename |-> "a.png", subfolder |-> "", type |-> "output"]

Descriptors ==
    WellFormed \cup {Restrict(BaseInfo, S) : S \in SUBSET EssentialSet}

\* Variant: only the first missing key is reported.
MissingFirstOnly(info) ==
    SubSeq(SelectSeq(essential_view_keys, LAMBDA k : k \notin DOMAIN info), 1, 1)

\* missing = [k for k in essential_view_keys if k not in info]
Missing(info) == SelectSeq(essential_view_keys, LAMBDA k : k \notin DOMAIN info)

\* key = f"{img.get('subfolder','')}/{img.get('filename','')}"
Key(img) ==
    DictGetDefault(img, "subfolder", "") \o "/" \o DictGetDefault(img, "filename", "")

\* Variant: the seen set is never consulted.
IsSeenNever(key, seen) == FALSE

\* Variant: the test is inverted.
IsSeenInverted(key, seen) == key \notin seen

\* if key in seen_images: continue
IsSeen(key, seen) == key \in seen

AllKeys == {Key(d) : d \in Descriptors}

\* The bytes the server holds for an artifact, named by the artifact.
ContentOf(params) == params.subfolder \o "/" \o params.filename

(***************************************************************************)
(* The history response.  history.get(prompt_id) is absent (None), an      *)
(* empty object, or an entry with outputs and a status.  n_images is the   *)
(* number of image descriptors of the entry's outputs, over all output     *)
(* nodes; completed is the value of status.completed, "None" when status   *)
(* or completed is absent.                                                 *)
(***************************************************************************)
CompletedValues == {"True", "False", "None", "1"}

Entries == [kind : {"dict"}, n_images : 0..MaxImages, completed : CompletedValues]

NoEntry == [kind |-> "none", n_images |-> 0, completed |-> "None"]

EmptyEntry == [kind |-> "empty", n_images |-> 0, completed |-> "None"]

\* if not entry
EntryFalsy(e) == e.kind \in {"none", "empty"}

HistoryResponses ==
    [status : {NoStatus, 404, 500}, entry : {NoEntry}]
        \cup [status : {200}, entry : Entries \cup {NoEntry, EmptyEntry}]

\* The exception fetch_history raises, "" when it returns.
FetchException(status) ==
    IF status = NoStatus THEN "ConnectionError"
    ELSE IF RaiseForStatus(status) THEN "HTTPError"
    ELSE ""

\* Variant: no except clause.
CaughtNothing(exc) == FALSE

\* except requests.HTTPError
Caught(exc) == exc = "HTTPError"

\* Variant: the deadline itself still starts a cycle.
DeadlineNotReachedInclusive(t, d) == t <= d

\* while time.time() < deadline
DeadlineNotReached(t, d) == t < d

\* Variant: the existence test is gone.
WorkflowMissingNever(exists) == FALSE

\* if not wf_path.exists()
WorkflowMissing(exists) == ~exists

\* Variant: the job id is not tested.
NoPromptIdNever(id) == FALSE

\* if not prompt_id
NoPromptId(id) == ~Truthy(id)

\* Variant: any truthy value counts as completed.
IsCompletedTruthy(e) == e.completed \in {"True", "1"}

\* entry.get("status", {}).get("completed") is True
IsCompleted(e) == e.completed = "True"

(***************************************************************************)
(* scripts/build_workflow.py: file names, directories and pick_first.      *)
(***************************************************************************)

\* The characters of the file names that occur in the asset directories.
Chars(name) ==
    CASE name = "a.gguf" -> <<"a", ".", "g", "g", "u", "f">>
      [] name = "c.gguf" -> <<"c", ".", "g", "g", "u", "f">>
      [] name = "B.gguf" -> <<"B", ".", "g", "g", "u", "f">>
      [] name = ".gguf" -> <<".", "g", "g", "u", "f">>
      [] name = "m.ckpt" -> <<"m", ".", "c", "k", "p", "t">>
      [] name = "v.safetensors" ->
             <<"v", ".", "s", "a", "f", "e", "t", "e", "n", "s", "o", "r", "s">>

\* The characters in code point order: str comparison goes by code point.
CodePointOrder ==
    <<".", "B", "a", "b", "c", "e", "f", "g", "k", "m", "n", "o", "p", "r", "s",
      "t", "u", "v", "x">>

Ord(c) == CHOOSE i \in 1..Len(CodePointOrder) : CodePointOrder[i] = c

\* s < t on str, given the characters of both
RECURSIVE CharsLess(_, _)
CharsLess(s, t) ==
    IF t = <<>> THEN FALSE
    ELSE IF s = <<>> THEN TRUE
    ELSE IF Head(s) = Head(t) THEN CharsLess(Tail(s), Tail(t))
    ELSE Ord(Head(s)) < Ord(Head(t))

StrLess(a, b) == CharsLess(Chars(a), Chars(b))

\* name.rfind("."), counted from 1; 0 when there is none
RECURSIVE RFind(_, _)
RFind(s, c) ==
    IF s = <<>> THEN 0
    ELSE IF s[Len(s)] = c THEN Len(s)
    ELSE RFind(SubSeq(s, 1, Len(s) - 1), c)

\* p.suffix: the part from the last dot on, unless that dot leads or ends the name
Suffix(name) ==
    LET s == Chars(name)
        i == RFind(s, ".")
    IN  IF i > 1 /\ i < Len(s) THEN SubSeq(s, i, Len(s)) ELSE <<>>

GGUF == {<<".", "g", "g", "u", "f">>}

VAE_SUFFIXES ==
    {<<".", "s", "a", "f", "e", "t", "e", "n", "s", "o", "r", "s">>,
     <<".", "c", "k", "p", "t">>}

\* sorted(...)
RECURSIVE Insert(_, _)
Insert(x, s) ==
    IF s = <<>> THEN <<x>>
    ELSE IF StrLess(x, Head(s)) THEN <<x>> \o s
    ELSE <<Head(s)>> \o Insert(x, Tail(s))

RECURSIVE Sorted(_)
Sorted(s) == IF s = <<>> THEN <<>> ELSE Insert(Head(s), Sorted(Tail(s)))

\* [p.name for p in dirpath.iterdir() if p.is_file() and p.suffix in suffixes]
RECURSIVE MatchingNames(_, _)
MatchingNames(listing, suffixes) ==
    IF listing = <<>> THEN <<>>
    ELSE (IF Head(listing).is_file /\ Suffix(Head(listing).name) \in suffixes
          THEN <<Head(listing).name>> ELSE <<>>)
         \o MatchingNames(Tail(listing), suffixes)

\* Variant: the names are not sorted.
pick_first_unsorted(exists, listing, suffixes) ==
    IF ~exists THEN None
    ELSE LET files == MatchingNames(listing, suffixes)
         IN  IF files # <<>> THEN Head(files) ELSE None

\* pick_first(dirpath, suffixes); listing is what dirpath.iterdir() yields
pick_first(exists, listing, suffixes) ==
    IF ~exists THEN None
    ELSE LET files == Sorted(MatchingNames(listing, suffixes))
         IN  IF files # <<>> THEN Head(files) ELSE None

File(name) == [name |-> name, is_file |-> TRUE]

Subdir(name) == [name |-> name, is_file |-> FALSE]

\* What each asset directory may hold.
UnetEntries == {Subdir("a.gguf"), File("B.gguf"), File("c.gguf")}

VaeEntries == {File("a.gguf"), File("m.ckpt"), File("v.safetensors")}

TextEntries == {File(".gguf"), File("a.gguf")}

Categories == {"unet", "vae", "text_encoders"}

EntriesOf(c) ==
    CASE c = "unet" -> UnetEntries
      [] c = "vae" -> VaeEntries
      [] c = "text_encoders" -> TextEntries

SuffixesOf(c) == IF c = "vae" THEN VAE_SUFFIXES ELSE GGUF

MissingDir == [exists |-> FALSE, entries |-> {}]

\* A directory: missing, or present with some of its possible entries.
DirStates(c) ==
    {MissingDir} \cup {[exists |-> TRUE, entries |-> e] : e \in SUBSET EntriesOf(c)}

\* dirpath.iterdir() yields the entries in an order of the file system's choosing.
Listings(entries) ==
    {l \in [1..Cardinality(entries) -> entries] :
        \A e \in entries : \E i \in DOMAIN l : l[i] = e}

\* Paths are sequences of components.
INPUTS_DIR == <<"external", "ComfyUI", "input">>

\* A symbolic link to the inputs directory.
INPUTS_LINK == <<"inputs_link">>

\* dirpath / name
Join(dirpath, name) == Append(dirpath, name)

\* p.name
PathName(p) == p[Len(p)]

\* p.resolve(): symbolic links are followed
Resolve(p) ==
    IF Len(p) >= 1 /\ SubSeq(p, 1, 1) = INPUTS_LINK
    THEN INPUTS_DIR \o Tail(p)
    ELSE p

\* The values --image takes.
ImagePaths ==
    {<<"pics", "cat.png">>, Join(INPUTS_LINK, "cat.png"), Join(INPUTS_DIR, "cat.png")}

\* The regular files the run can see, by resolved path, and what they may hold.
Disks(inputs_present) ==
    LET outside == <<"pics", "cat.png">>
        staged == Join(INPUTS_DIR, "cat.png")
        paths == IF inputs_present THEN {outside, staged} ELSE {outside}
    IN  {d \in UNION {[S -> {"CAT", "OLD"}] : S \in SUBSET paths} :
            outside \in DOMAIN d => d[outside] = "CAT"}

\* p.exists()
PathExists(p, d) == Resolve(p) \in DOMAIN d

\* Variant: a file already at the path is kept.
WriteBytesIfAbsent(d, p, data) ==
    [q \in DOMAIN d \cup {Resolve(p)} |-> IF q \in DOMAIN d THEN d[q] ELSE data]

\* p.write_bytes(data)
WriteBytes(d, p, data) ==
    [q \in DOMAIN d \cup {Resolve(p)} |-> IF q = Resolve(p) THEN data ELSE d[q]]

\* The directory of a category, as the messages print it.
DirText(c) ==
    IF c = "input" THEN "external/ComfyUI/input"
    ELSE "external/ComfyUI/models/" \o c

DirMissingMessage(c) ==
    "Expected directory missing: " \o DirText(c) \o ". Run scripts/setup_gguf.sh first."

NoAssetMessage(c) ==
    CASE c = "unet" ->
             "No UNet GGUF found under models/unet. Did setup_gguf.sh finish?"
      [] c = "vae" ->
             "No VAE found under models/vae. Did setup_gguf.sh finish?"
      [] c = "text_encoders" ->
             "No text-encoder GGUF found under models/text_encoders. "
             \o "Did setup_gguf.sh finish?"

\* "Input image not found: {src}", without the path
NoImageMessage == "Input image not found"

\* for d in [UNET, VAE, TEXT, INPUTS_DIR]
RequiredDirs == <<"unet", "vae", "text_encoders", "input">>

\* --prompt, --negative, --steps, --cfg
BuilderArgs ==
    {[prompt |-> "cat", negative |-> " ", steps |-> 8, cfg |-> "1.5"],
     [prompt |-> "cat", negative |-> "blurry", steps |-> 20, cfg |-> "1.5"],
     [prompt |-> " ", negative |-> " ", steps |-> 8, cfg |-> "7.0"]}

NoArgs == [prompt |-> "", negative |-> "", steps |-> 0, cfg |-> ""]

Digits == <<"0", "1", "2", "3", "4", "5", "6", "7", "8", "9">>

\* Variant: only the last digit is printed.
StrUnits(n) == Digits[(n % 10) + 1]

\* str(nid)
RECURSIVE Str(_)
Str(n) == IF n < 10 THEN Digits[n + 1] ELSE Str(n \div 10) \o Digits[(n % 10) + 1]

\* nid = 1
FIRST_ID == 1

\* raise SystemExit(<message>), and return 0
BUILD_FAILED == 1

BUILD_OK == 0

\* Variant: the counter is not advanced.
BumpStuck(counter) == counter

\* nid += 1
Bump(counter) == counter + 1

\* An input that is a literal, and one that is a reference [node id, slot].
Lit(v) == [kind |-> "lit", value |-> v]

Ref(node, slot) == [kind |-> "ref", node |-> node, slot |-> slot]

Node(class_type, inputs) == [class_type |-> class_type, inputs |-> inputs]

\* The Python variables that hold the node ids, in the order of their assignment.
Roles ==
    <<"unet_node", "vae_node", "clip_node", "pos_node", "neg_node", "load_img",
      "vae_encode", "ksampler", "vae_decode", "save">>

\* A dict in insertion order: d[k] = v replaces the value of a key already there.
DictKeys(d) == {d[i].key : i \in DOMAIN d}

DictSet(d, k, v) ==
    IF k \in DictKeys(d)
    THEN [i \in DOMAIN d |-> IF d[i].key = k THEN [key |-> k, value |-> v] ELSE d[i]]
    ELSE Append(d, [key |-> k, value |-> v])

\* d[k]
DictItem(d, k) == d[CHOOSE i \in DOMAIN d : d[i].key = k].value

(***************************************************************************)
(* qwen_image_edit/cli/main.py: validate_image_path.  Strings are          *)
(* sequences of characters here.                                           *)
(***************************************************************************)

\* The values of the option: what a user types or drops on the terminal.
OptionValues ==
    {<<"/", "a", " ", "b", ".", "j", "p", "g">>,
     <<"\"", "/", "a", " ", "b", ".", "j", "p", "g", "\"">>,
     <<"'", "/", "c", ".", "P", "N", "G", "'">>,
     <<" ", "/", "c", ".", "P", "N", "G", " ">>,
     <<"/", "a", "\\", " ", "b", ".", "j", "p", "g">>,
     <<"\"", "/", "a", "\\", " ", "b", ".", "j", "p", "g", "\"">>,
     <<"/", "d", ".", "g", "i", "f">>,
     <<"/", "e", ".", "p", "n", "g">>,
     <<"~", "/", "f", ".", "w", "e", "b", "p">>,
     <<"g", ".", "j", "p", "e", "g">>,
     <<"/", "w">>,
     <<>>}

HOME_DIR == <<"/", "h">>

WORK_DIR == <<"/", "w">>

\* What the file system may hold besides the root, the home and the working
\* directory: regular files, and a directory with an image suffix.
PossibleEntries ==
    {[path |-> <<"/", "a", " ", "b", ".", "j", "p", "g">>, is_file |-> TRUE],
     [path |-> <<"/", "c", ".", "P", "N", "G">>, is_file |-> TRUE],
     [path |-> <<"/", "d", ".", "g", "i", "f">>, is_file |-> TRUE],
     [path |-> <<"/", "e", ".", "p", "n", "g">>, is_file |-> FALSE],
     [path |-> <<"/", "h", "/", "f", ".", "w", "e", "b", "p">>, is_file |-> TRUE],
     [path |-> <<"/", "w", "/", "g", ".", "j", "p", "e", "g">>, is_file |-> TRUE]}

\* value.strip(chars); the chars of '"\' ' are both quotes and the space
RECURSIVE LStrip(_, _)
LStrip(s, chars) ==
    IF s # <<>> /\ Head(s) \in chars THEN LStrip(Tail(s), chars) ELSE s

RECURSIVE RStrip(_, _)
RStrip(s, chars) ==
    IF s # <<>> /\ s[Len(s)] \in chars
    THEN RStrip(SubSeq(s, 1, Len(s) - 1), chars)
    ELSE s

Strip(s, chars) == RStrip(LStrip(s, chars), chars)

\* value.replace('\\ ', ' ')
RECURSIVE UnescapeSpaces(_)
UnescapeSpaces(s) ==
    IF s = <<>> THEN <<>>
    ELSE IF Len(s) >= 2 /\ s[1] = "\\" /\ s[2] = " "
    THEN <<" ">> \o UnescapeSpaces(SubSeq(s, 3, Len(s)))
    ELSE <<Head(s)>> \o UnescapeSpaces(Tail(s))

\* Path(s).expanduser(): a leading "~" alone or before "/" is the home directory
ExpandUser(s) ==
    IF s # <<>> /\ Head(s) = "~" /\ (Len(s) = 1 \/ s[2] = "/")
    THEN HOME_DIR \o Tail(s)
    ELSE s

\* Path(s).resolve(): Path("") is ".", a relative path starts at the working
\* directory
ResolveAbsolute(s) ==
    IF s = <<>> THEN WORK_DIR
    ELSE IF Head(s) = "/" THEN s
    ELSE WORK_DIR \o <<"/">> \o s

\* path.exists(): true of regular files and of directories
Exists(p, fs) ==
    \/ p \in {<<"/">>, HOME_DIR, WORK_DIR}
    \/ \E e \in fs : e.path = p

\* path.suffix: of the name, which is what follows the last "/", the part from
\* the last dot on, unless that dot leads or ends the name
PathSuffix(p) ==
    LET name == SubSeq(p, RFind(p, "/") + 1, Len(p))
        i == RFind(name, ".")
    IN  IF i > 1 /\ i < Len(name) THEN SubSeq(name, i, Len(name)) ELSE <<>>

\* s.lower(), for the letters that occur
Lower(s) ==
    [i \in DOMAIN s |-> CASE s[i] = "P" -> "p"
                           [] s[i] = "N" -> "n"
                           [] s[i] = "G" -> "g"
                           [] OTHER -> s[i]]

supported_formats ==
    {<<".", "j", "p", "g">>,
     <<".", "j", "p", "e", "g">>,
     <<".", "p", "n", "g">>,
     <<".", "b", "m", "p">>,
     <<".", "t", "i", "f", "f">>,
     <<".", "h", "e", "i", "c">>,
     <<".", "w", "e", "b", "p">>}

\* return path / raise click.BadParameter(message): the message by its first words
Returned(path) == [kind |-> "path", path |-> path]

ReturnedNone == [kind |-> "None", path |-> <<>>]

BadParameter(message, path) == [kind |-> message, path |-> path]

\* validate_image_path(ctx, param, value); value is <<>> for None, else <<string>>
validate_image_path(value, fs) ==
    IF value = <<>> THEN ReturnedNone
    ELSE LET cleaned_path == Strip(value[1], {"\"", "'", " "})
             path == ResolveAbsolute(ExpandUser(cleaned_path))
             alt_path == ResolveAbsolute(ExpandUser(UnescapeSpaces(value[1])))
             found == IF Exists(path, fs) THEN <<path>>
                      ELSE IF Exists(alt_path, fs) THEN <<alt_path>>
                      ELSE <<>>
         IN  IF found = <<>> THEN BadParameter("Image file not found", path)
             ELSE IF Lower(PathSuffix(found[1])) \notin supported_formats
             THEN BadParameter("Unsupported image format", PathSuffix(found[1]))
             ELSE Returned(found[1])

(***************************************************************************)
(* JSON: what json.dumps writes for the builder's payload and what         *)
(* json.load makes of it.  A JSON value carries its kind; a number is the  *)
(* characters of its literal.                                              *)
(***************************************************************************)
JString(s) == [t |-> "string", s |-> s]

JNumber(literal) == [t |-> "number", literal |-> literal]

JArray(items) == [t |-> "array", items |-> items]

JObject(members) == [t |-> "object", members |-> members]

\* The literal of an int: its decimal digits.
RECURSIVE IntLiteral(_)
IntLiteral(n) ==
    IF n < 10 THEN <<Digits[n + 1]>>
    ELSE Append(IntLiteral(n \div 10), Digits[(n % 10) + 1])

\* The value of a digit.
DigitValue(c) == (CHOOSE i \in DOMAIN Digits : Digits[i] = c) - 1

\* Variant: only the last digit counts.
ParseIntUnits(literal) == DigitValue(literal[Len(literal)])

\* int(literal)
RECURSIVE ParseInt(_)
ParseInt(literal) ==
    IF Len(literal) = 1 THEN DigitValue(literal[1])
    ELSE 10 * ParseInt(SubSeq(literal, 1, Len(literal) - 1))
             + DigitValue(literal[Len(literal)])

\* float.__repr__ of the guidance scales of BuilderArgs, a float being held as
\* its text
FloatLiteral(x) ==
    CASE x = "1.5" -> <<"1", ".", "5">>
      [] x = "7.0" -> <<"7", ".", "0">>

\* float(literal), as its text again
RECURSIVE ParseFloat(_)
ParseFloat(literal) ==
    IF literal = <<>> THEN "" ELSE Head(literal) \o ParseFloat(Tail(literal))

\* json.dumps of one input: a list [node id, slot] is an array, an int or a float
\* a number, a str a string.  "seed" is 42 and "steps" is args.steps (type=int),
\* "cfg" is args.cfg (type=float).
DumpInput(name, x) ==
    IF x.kind = "ref" THEN JArray(<<JString(x.node), JNumber(IntLiteral(x.slot))>>)
    ELSE IF name \in {"seed", "steps"} THEN JNumber(IntLiteral(x.value))
    ELSE IF name = "cfg" THEN JNumber(FloatLiteral(x.value))
    ELSE JString(x.value)

\* json.dumps(payload): the members of "prompt" in the dict's order, each key a
\* string, each node an object of its kind and its inputs
json_dumps(document) ==
    LET DumpNode(node) ==
            JObject([class_type |-> JString(node.class_type),
                     inputs |-> JObject([name \in DOMAIN node.inputs |->
                                            DumpInput(name, node.inputs[name])])])
    IN  JObject([prompt |->
                    JObject([i \in DOMAIN document.prompt |->
                                [name |-> document.prompt[i].key,
                                 value |-> DumpNode(document.prompt[i].value)]])])

\* json.load of one input: an array is a list, a number with a point a float,
\* another number an int
LoadInput(j) ==
    CASE j.t = "array" -> Ref(j.items[1].s, ParseInt(j.items[2].literal))
      [] j.t = "number" ->
             IF \E i \in DOMAIN j.literal : j.literal[i] = "."
             THEN Lit(ParseFloat(j.literal))
             ELSE Lit(ParseInt(j.literal))
      [] j.t = "string" -> Lit(j.s)

\* json.load(f) of what json_dumps wrote: a dict again, in the order of the text
json_load(text) ==
    LET LoadNode(j) ==
            Node(j.members.class_type.s,
                 [name \in DOMAIN j.members.inputs.members |->
                     LoadInput(j.members.inputs.members[name])])
    IN  [k \in DOMAIN text.members |->
            [i \in DOMAIN text.members[k].members |->
                [key |-> text.members[k].members[i].name,
                 value |-> LoadNode(text.members[k].members[i].value)]]]

VARIABLES
    pc,            \* position of main()
    wf_exists,     \* wf_path.exists()
    timeout,       \* args.timeout
    interval,      \* args.interval
    payload,       \* the body to submit
    posts,         \* number of POST /prompt requests issued
    post_resp,     \* the response to POST /prompt, until main() has used it
    prompt_id,     \* the job id
    now,           \* time.time()
    deadline,
    seen_images,
    entry,         \* the entry of the current poll cycle
    todo,          \* number of image descriptors of the entry not yet visited
    img,           \* the image descriptor visited last
    any_new,
    cycle_keys,    \* keys of the descriptors visited in the current cycle
    cycle_wf,      \* the descriptors visited in the current cycle have all three fields
    hist_status,   \* status of the history response of the current cycle
    hist_queries,  \* number of GET /history requests issued
    hist_entries,  \* number of history responses that carried an entry for the job
    hist_ids,      \* the job ids the history requests asked for
    sleeps,        \* number of calls of time.sleep
    view_count,    \* number of GET /view requests issued, per artifact key
    write_count,   \* number of file writes performed, per artifact key
    outdir_exists,
    files,         \* the output directory: file name -> bytes
    exit_code,     \* <<>> while running, <<status>> once the process has ended
    error,         \* the exception that ended the process, if any
    err_missing,   \* the list named by "Image info missing keys"
    wf_document,   \* the content of the workflow file, where the run tells it
    body,          \* the body of the POST /prompt request sent
    bpc,           \* position of build_workflow.py's main()
    asset_dirs,    \* models/unet, models/vae, models/text_encoders
    inputs_exists, \* INPUTS_DIR.exists()
    disk,          \* the image files: resolved path -> bytes
    image,         \* args.image
    out_file,      \* the file at args.out: <<>> when absent, else <<document>>
    unet_name,
    vae_name,
    clip_name,
    params,        \* args.prompt, args.negative, args.steps, args.cfg
    nid,
    ids,           \* unet_node, vae_node, ...: the node id each variable holds
    nodes,
    build_exit,    \* <<>> while running, <<status>> once the builder has ended
    build_error,   \* the message of SystemExit
    run,           \* 1 in the first run of the builder, 2 in the second
    first_params,  \* the arguments of the first run
    first_out,     \* the content of args.out after the first run
    v_pc,          \* position of the call of validate_image_path
    v_value,       \* its argument value: <<>> for None, else <<string>>
    v_fs,          \* the files and directories it finds
    v_result       \* what it returned or raised

vars == <<pc, wf_exists, timeout, interval, payload, posts, post_resp, prompt_id,
          now, deadline, seen_images, entry, todo, img, any_new, cycle_keys,
          cycle_wf, hist_status, hist_queries, hist_entries, hist_ids, sleeps,
          view_count,
          write_count, outdir_exists, files, exit_code, error, err_missing,
          wf_document, body,
          bpc, asset_dirs, inputs_exists, disk, image, out_file, unet_name,
          vae_name, clip_name, params, nid, ids, nodes, build_exit, build_error,
          run, first_params, first_out, v_pc, v_value, v_fs, v_result>>

args == <<wf_exists, timeout, interval, wf_document>>

submission == <<payload, posts, post_resp, prompt_id, body>>

cycle == <<entry, todo, img, any_new, cycle_keys, cycle_wf, hist_status>>

history == <<hist_queries, hist_entries, hist_ids>>

downloads == <<seen_images, view_count, write_count, outdir_exists, files>>

outcome == <<exit_code, error, err_missing>>

\* The state of scripts/comfy_submit.py.
submitter == <<pc, args, submission, now, deadline, cycle, history, sleeps, downloads,
              outcome>>

filesystem == <<asset_dirs, inputs_exists, disk, out_file>>

picked == <<unet_name, vae_name, clip_name>>

graph == <<params, nid, ids, nodes>>

build_outcome == <<build_exit, build_error>>

\* The state of scripts/build_workflow.py.
builder == <<bpc, image, filesystem, picked, graph, build_outcome>>

rerun == <<run, first_params, first_out>>

validator == <<v_pc, v_value, v_fs, v_result>>

\* What neither script touches in a single run.
elsewhere == <<rerun, validator>>

\* Before nodes = {} nothing is built.
NoGraph ==
    /\ params = NoArgs
    /\ nid = 0
    /\ ids = EmptyDict
    /\ nodes = <<>>

\* The builder is not run.
BuilderIdle ==
    /\ bpc = "idle"
    /\ asset_dirs = [c \in Categories |-> MissingDir]
    /\ inputs_exists = FALSE
    /\ disk = EmptyDict
    /\ image = <<>>
    /\ out_file = <<>>
    /\ unet_name = None
    /\ vae_name = None
    /\ clip_name = None
    /\ NoGraph
    /\ build_exit = <<>>
    /\ build_error = ""

\* The builder has not run before.
FirstRun ==
    /\ run = 1
    /\ first_params = NoArgs
    /\ first_out = <<>>

\* validate_image_path is not called.
ValidatorIdle ==
    /\ v_pc = "idle"
    /\ v_value = <<>>
    /\ v_fs = {}
    /\ v_result = ReturnedNone

\* The state main() starts from, but for its arguments.
Fresh ==
    /\ payload = EmptyDict
    /\ body = EmptyDict
    /\ posts = 0
    /\ post_resp = NoResponse
    /\ prompt_id = None
    /\ now = 0
    /\ deadline = 0
    /\ seen_images = {}
    /\ entry = NoEntry
    /\ todo = 0
    /\ img = EmptyDict
    /\ any_new = FALSE
    /\ cycle_keys = {}
    /\ cycle_wf = TRUE
    /\ hist_status = NoStatus
    /\ hist_queries = 0
    /\ hist_entries = 0
    /\ hist_ids = {}
    /\ sleeps = 0
    /\ view_count = [k \in AllKeys |-> 0]
    /\ write_count = [k \in AllKeys |-> 0]
    /\ outdir_exists = FALSE
    /\ files = EmptyDict
    /\ exit_code = <<>>
    /\ error = ""
    /\ err_missing = <<>>

Init ==
    /\ pc = "start"
    /\ wf_exists \in BOOLEAN
    /\ timeout \in -1..MaxTimeout
    /\ interval \in 1..MaxInterval
    /\ wf_document = EmptyDict
    /\ Fresh
    /\ BuilderIdle
    /\ FirstRun
    /\ ValidatorIdle

\* The submitter is not run.
SubmitterIdle ==
    /\ pc = "idle"
    /\ wf_exists = FALSE
    /\ timeout = 0
    /\ interval = 1
    /\ wf_document = EmptyDict
    /\ Fresh

\* return <status>
Return(status) ==
    /\ pc' = "done"
    /\ exit_code' = <<status>>
    /\ UNCHANGED <<error, err_missing>>

\* An exception nothing catches ends the process with status 1.
Raise(exc, missing) ==
    /\ pc' = "done"
    /\ exit_code' = <<EXIT_EXCEPTION>>
    /\ error' = exc
    /\ err_missing' = missing

\* if not wf_path.exists(): return 2; else load the document and normalize it.
LoadWorkflow ==
    /\ pc = "start"
    /\ IF WorkflowMissing(wf_exists)
       THEN /\ Return(EXIT_NO_WORKFLOW)
            /\ UNCHANGED payload
       ELSE /\ \E document \in Documents : payload' = NormalizeEnvelope(document)
            /\ pc' = "submit"
            /\ UNCHANGED outcome
    /\ UNCHANGED <<args, posts, post_resp, prompt_id, body, now, deadline, cycle,
                   history, sleeps, downloads>>
    /\ UNCHANGED <<builder, elsewhere>>

\* prompt_id = submit_prompt(args.server, payload)
SubmitPrompt ==
    /\ pc = "submit"
    /\ \E resp \in PostResponses :
        /\ posts' = posts + 1
        /\ body' = payload
        /\ post_resp' = resp
        /\ IF RaiseForStatus(resp.status)
           THEN Raise("HTTPError", <<>>) /\ UNCHANGED prompt_id
           ELSE IF ~resp.json
           THEN Raise("JSONDecodeError", <<>>) /\ UNCHANGED prompt_id
           ELSE /\ prompt_id' = JobIdOf(resp.body)
                /\ pc' = "checkid"
                /\ UNCHANGED outcome
    /\ UNCHANGED <<args, payload, now, deadline, cycle, history, sleeps, downloads>>
    /\ UNCHANGED <<builder, elsewhere>>

\* if not prompt_id: return 3; else deadline = time.time() + args.timeout
CheckPromptId ==
    /\ pc = "checkid"
    /\ IF NoPromptId(prompt_id)
       THEN /\ Return(EXIT_NO_PROMPT_ID)
            /\ UNCHANGED <<deadline, post_resp>>
       ELSE /\ deadline' = now + timeout
            /\ post_resp' = NoResponse
            /\ pc' = "loop"
            /\ UNCHANGED outcome
    /\ UNCHANGED <<args, payload, posts, prompt_id, body, now, cycle, history, sleeps,
                   downloads>>
    /\ UNCHANGED <<builder, elsewhere>>

\* Variant: the loop waits at its head once the deadline has passed.
LoopHeadSpin ==
    /\ pc = "loop"
    /\ IF DeadlineNotReached(now, deadline)
       THEN pc' = "fetch" /\ UNCHANGED outcome
       ELSE UNCHANGED <<pc, outcome>>
    /\ UNCHANGED <<args, submission, now, deadline, cycle, history, sleeps, downloads>>
    /\ UNCHANGED <<builder, elsewhere>>

\* while time.time() < deadline: ... ; after the loop: return 4
LoopHead ==
    /\ pc = "loop"
    /\ IF DeadlineNotReached(now, deadline)
       THEN pc' = "fetch" /\ UNCHANGED outcome
       ELSE Return(EXIT_TIMEOUT)
    /\ UNCHANGED <<args, submission, now, deadline, cycle, history, sleeps, downloads>>
    /\ UNCHANGED <<builder, elsewhere>>

\* history = fetch_history(...), except HTTPError; entry = history.get(prompt_id)
FetchHistory ==
    /\ pc = "fetch"
    /\ \E resp \in HistoryResponses, latency \in 0..MaxLatency :
        /\ now' = now + latency
        /\ hist_queries' = hist_queries + 1
        /\ hist_ids' = hist_ids \cup {prompt_id}
        /\ hist_status' = resp.status
        /\ IF FetchException(resp.status) # ""
           THEN /\ IF Caught(FetchException(resp.status))
                   THEN pc' = "sleep" /\ UNCHANGED outcome
                   ELSE Raise(FetchException(resp.status), <<>>)
                /\ UNCHANGED <<entry, todo, any_new, hist_entries>>
           ELSE IF EntryFalsy(resp.entry)
           THEN /\ pc' = "sleep"
                /\ UNCHANGED <<entry, todo, any_new, hist_entries, outcome>>
           ELSE /\ hist_entries' = hist_entries + 1
                /\ entry' = resp.entry
                /\ todo' = resp.entry.n_images
                /\ any_new' = FALSE
                /\ pc' = "collect"
                /\ UNCHANGED outcome
    /\ UNCHANGED <<args, submission, deadline, img, cycle_keys, cycle_wf,
                   sleeps, downloads>>
    /\ UNCHANGED <<builder, elsewhere>>

\* for img in images: if key in seen_images: continue
SkipSeen ==
    /\ pc = "collect"
    /\ todo > 0
    /\ \E info \in Descriptors :
        /\ IsSeen(Key(info), seen_images)
        /\ img' = info
        /\ cycle_keys' = cycle_keys \cup {Key(info)}
        /\ cycle_wf' = (cycle_wf /\ info \in WellFormed)
    /\ todo' = todo - 1
    /\ UNCHANGED <<pc, args, submission, now, deadline, entry, any_new,
                   hist_status, history, sleeps, downloads, outcome>>
    /\ UNCHANGED <<builder, elsewhere>>

\* Variant: a failed view request is taken as "not ready" and the cycle is left.
DownloadImageRetrying ==
    /\ pc = "collect"
    /\ todo > 0
    /\ \E info \in Descriptors :
        /\ ~IsSeen(Key(info), seen_images)
        /\ img' = info
        /\ cycle_keys' = cycle_keys \cup {Key(info)}
        /\ cycle_wf' = (cycle_wf /\ info \in WellFormed)
        /\ IF Missing(info) # <<>>
           THEN /\ Raise("RuntimeError", Missing(info))
                /\ UNCHANGED <<now, todo, any_new, downloads>>
           ELSE \E status \in StatusCodes, latency \in 0..MaxLatency :
                /\ view_count' = [view_count EXCEPT ![Key(info)] = @ + 1]
                /\ now' = now + latency
                /\ IF RaiseForStatus(status)
                   THEN /\ pc' = "sleep"
                        /\ todo' = 0
                        /\ UNCHANGED <<seen_images, any_new, write_count,
                                       outdir_exists, files, outcome>>
                   ELSE /\ outdir_exists' = TRUE
                        /\ files' = [f \in DOMAIN files \cup {info.filename} |->
                                        IF f = info.filename THEN ContentOf(info)
                                                             ELSE files[f]]
                        /\ write_count' = [write_count EXCEPT ![Key(info)] = @ + 1]
                        /\ seen_images' = seen_images \cup {Key(info)}
                        /\ any_new' = TRUE
                        /\ todo' = todo - 1
                        /\ UNCHANGED <<pc, outcome>>
    /\ UNCHANGED <<args, submission, deadline, entry, hist_status, history, sleeps>>
    /\ UNCHANGED <<builder, elsewhere>>

\* for img in images: path = download_image(...); seen_images.add(key); any_new = True
DownloadImage ==
    /\ pc = "collect"
    /\ todo > 0
    /\ \E info \in Descriptors :
        /\ ~IsSeen(Key(info), seen_images)
        /\ img' = info
        /\ cycle_keys' = cycle_keys \cup {Key(info)}
        /\ cycle_wf' = (cycle_wf /\ info \in WellFormed)
        /\ IF Missing(info) # <<>>
           THEN /\ Raise("RuntimeError", Missing(info))
                /\ UNCHANGED <<now, todo, any_new, downloads>>
           ELSE \E status \in StatusCodes, latency \in 0..MaxLatency :
                /\ view_count' = [view_count EXCEPT ![Key(info)] = @ + 1]
                /\ now' = now + latency
                /\ IF RaiseForStatus(status)
                   THEN /\ Raise("HTTPError", <<>>)
                        /\ UNCHANGED <<seen_images, todo, any_new, write_count,
                                       outdir_exists, files>>
                   ELSE /\ outdir_exists' = TRUE
                        /\ files' = [f \in DOMAIN files \cup {info.filename} |->
                                        IF f = info.filename THEN ContentOf(info)
                                                             ELSE files[f]]
                        /\ write_count' = [write_count EXCEPT ![Key(info)] = @ + 1]
                        /\ seen_images' = seen_images \cup {Key(info)}
                        /\ any_new' = TRUE
                        /\ todo' = todo - 1
                        /\ UNCHANGED <<pc, outcome>>
    /\ UNCHANGED <<args, submission, deadline, entry, hist_status, history, sleeps>>
    /\ UNCHANGED <<builder, elsewhere>>

\* Variant: completion ends the run only in a cycle without new artifacts.
CheckCompletedUnlessNew ==
    /\ pc = "collect"
    /\ todo = 0
    /\ IF IsCompleted(entry) /\ ~any_new
       THEN Return(EXIT_COMPLETED)
       ELSE pc' = "sleep" /\ UNCHANGED outcome
    /\ UNCHANGED <<args, submission, now, deadline, cycle, history, sleeps, downloads>>
    /\ UNCHANGED <<builder, elsewhere>>

\* Variant: a cycle that found new artifacts polls again without sleeping.
CheckCompletedNoSleepIfNew ==
    /\ pc = "collect"
    /\ todo = 0
    /\ IF IsCompleted(entry)
       THEN Return(EXIT_COMPLETED)
       ELSE pc' = (IF any_new THEN "loop" ELSE "sleep") /\ UNCHANGED outcome
    /\ UNCHANGED <<args, submission, now, deadline, cycle, history, sleeps, downloads>>
    /\ UNCHANGED <<builder, elsewhere>>

\* if entry.get("status", {}).get("completed") is True: return 0
CheckCompleted ==
    /\ pc = "collect"
    /\ todo = 0
    /\ IF IsCompleted(entry)
       THEN Return(EXIT_COMPLETED)
       ELSE pc' = "sleep" /\ UNCHANGED outcome
    /\ UNCHANGED <<args, submission, now, deadline, cycle, history, sleeps, downloads>>
    /\ UNCHANGED <<builder, elsewhere>>

\* time.sleep(args.interval); the cycle's response is not looked at again.
Sleep ==
    /\ pc = "sleep"
    /\ now' = now + interval
    /\ entry' = NoEntry
    /\ img' = EmptyDict
    /\ cycle_keys' = {}
    /\ cycle_wf' = TRUE
    /\ hist_status' = NoStatus
    /\ sleeps' = sleeps + 1
    /\ pc' = "loop"
    /\ UNCHANGED <<args, submission, deadline, todo, any_new, history, downloads,
                   outcome>>
    /\ UNCHANGED <<builder, elsewhere>>

Next ==
    \/ LoadWorkflow
    \/ SubmitPrompt
    \/ CheckPromptId
    \/ LoopHead
    \/ FetchHistory
    \/ SkipSeen
    \/ DownloadImage
    \/ CheckCompleted
    \/ Sleep

Spec == Init /\ [][Next]_vars

\* The process runs on until main() returns or raises: every request returns and
\* every sleep ends.
FairSpec == Spec /\ WF_vars(Next)

(***************************************************************************)
(* scripts/build_workflow.py: main().                                      *)
(***************************************************************************)

\* A worn document that may lie at args.out before the run.
OldDocument == [prompt |-> <<>>]

BuilderInit ==
    /\ bpc = "check_dirs"
    /\ asset_dirs \in {f \in [Categories -> UNION {DirStates(c) : c \in Categories}] :
                          \A c \in Categories : f[c] \in DirStates(c)}
    /\ inputs_exists \in BOOLEAN
    /\ disk \in Disks(inputs_exists)
    /\ image \in ImagePaths
    /\ out_file \in {<<>>, <<OldDocument>>}
    /\ unet_name = None
    /\ vae_name = None
    /\ clip_name = None
    /\ NoGraph
    /\ build_exit = <<>>
    /\ build_error = ""
    /\ SubmitterIdle
    /\ FirstRun
    /\ ValidatorIdle

\* raise SystemExit(message)
Exit(message) ==
    /\ bpc' = "done"
    /\ build_exit' = <<BUILD_FAILED>>
    /\ build_error' = message

\* d.exists()
DirExists(c) == IF c = "input" THEN inputs_exists ELSE asset_dirs[c].exists

\* for d in [UNET, VAE, TEXT, INPUTS_DIR]: if not d.exists(): raise SystemExit(...)
CheckDirs ==
    /\ bpc = "check_dirs"
    /\ LET absent == SelectSeq(RequiredDirs, LAMBDA c : ~DirExists(c))
       IN  IF absent # <<>>
           THEN Exit(DirMissingMessage(Head(absent)))
           ELSE bpc' = "pick" /\ UNCHANGED build_outcome
    /\ UNCHANGED <<image, filesystem, picked, graph, submitter, elsewhere>>

\* The three calls of pick_first, each on a listing of the file system's choosing.
PickAll ==
    \E lu \in Listings(asset_dirs["unet"].entries),
       lv \in Listings(asset_dirs["vae"].entries),
       lt \in Listings(asset_dirs["text_encoders"].entries) :
        /\ unet_name' = pick_first(asset_dirs["unet"].exists, lu, GGUF)
        /\ vae_name' = pick_first(asset_dirs["vae"].exists, lv, VAE_SUFFIXES)
        /\ clip_name' = pick_first(asset_dirs["text_encoders"].exists, lt, GGUF)

\* unet_name = pick_first(UNET, (".gguf",)); vae_name = ...; clip_name = ...
PickAssets ==
    /\ bpc = "pick"
    /\ PickAll
    /\ bpc' = "check_assets"
    /\ UNCHANGED <<image, filesystem, graph, build_outcome, submitter, elsewhere>>

\* if not unet_name: raise ...; if not vae_name: raise ...; if not clip_name: raise ...
CheckAssets ==
    /\ bpc = "check_assets"
    /\ IF ~Truthy(unet_name) THEN Exit(NoAssetMessage("unet"))
       ELSE IF ~Truthy(vae_name) THEN Exit(NoAssetMessage("vae"))
       ELSE IF ~Truthy(clip_name) THEN Exit(NoAssetMessage("text_encoders"))
       ELSE bpc' = "stage" /\ UNCHANGED build_outcome
    /\ UNCHANGED <<image, filesystem, picked, graph, submitter, elsewhere>>

\* target = INPUTS_DIR / src.name
Target == Join(INPUTS_DIR, PathName(image))

\* Variant: the target is opened for writing before the source is looked at.
StageImageTargetFirst ==
    /\ bpc = "stage"
    /\ IF ~PathExists(image, disk)
       THEN /\ Exit(NoImageMessage)
            /\ disk' = WriteBytes(disk, Target, "")
            /\ UNCHANGED inputs_exists
       ELSE /\ inputs_exists' = TRUE
            /\ disk' = IF Resolve(image) # Resolve(Target)
                       THEN WriteBytes(disk, Target, disk[Resolve(image)])
                       ELSE disk
            /\ bpc' = "graph"
            /\ UNCHANGED build_outcome
    /\ UNCHANGED <<image, asset_dirs, out_file, picked, graph, submitter, elsewhere>>

\* if not src.exists(): raise ...; INPUTS_DIR.mkdir(...); copy unless the same file
StageImage ==
    /\ bpc = "stage"
    /\ IF ~PathExists(image, disk)
       THEN /\ Exit(NoImageMessage)
            /\ UNCHANGED <<inputs_exists, disk>>
       ELSE /\ inputs_exists' = TRUE
            /\ disk' = IF Resolve(image) # Resolve(Target)
                       THEN WriteBytes(disk, Target, disk[Resolve(image)])
                       ELSE disk
            /\ bpc' = "graph"
            /\ UNCHANGED build_outcome
    /\ UNCHANGED <<image, asset_dirs, out_file, picked, graph, submitter, elsewhere>>

\* nodes = {}; nid = 1.  The arguments the nodes read are drawn here.
InitGraph ==
    /\ bpc = "graph"
    /\ params' \in BuilderArgs
    /\ nid' = FIRST_ID
    /\ ids' = EmptyDict
    /\ nodes' = <<>>
    /\ bpc' = "nodes"
    /\ UNCHANGED <<image, filesystem, picked, build_outcome, submitter, elsewhere>>

\* Variant: the two prompt encodings change places.
KSamplerInputsSwapped ==
    [model |-> Ref(ids["unet_node"], 0),
     seed |-> Lit(42),
     steps |-> Lit(params.steps),
     cfg |-> Lit(params.cfg),
     sampler_name |-> Lit("euler"),
     scheduler |-> Lit("karras"),
     positive |-> Ref(ids["neg_node"], 0),
     negative |-> Ref(ids["pos_node"], 0),
     latent_image |-> Ref(ids["vae_encode"], 0)]

\* "inputs" of nodes[ksampler]
KSamplerInputs ==
    [model |-> Ref(ids["unet_node"], 0),
     seed |-> Lit(42),
     steps |-> Lit(params.steps),
     cfg |-> Lit(params.cfg),
     sampler_name |-> Lit("euler"),
     scheduler |-> Lit("karras"),
     positive |-> Ref(ids["pos_node"], 0),
     negative |-> Ref(ids["neg_node"], 0),
     latent_image |-> Ref(ids["vae_encode"], 0)]

\* The node that the assignment to the given variable creates.
NodeFor(role) ==
    CASE role = "unet_node" ->
             Node("UnetLoaderGGUF", [unet_name |-> Lit(unet_name)])
      [] role = "vae_node" ->
             Node("VAELoader", [vae_name |-> Lit(vae_name)])
      [] role = "clip_node" ->
             Node("CLIPLoaderGGUF",
                  [clip_name |-> Lit(clip_name), type |-> Lit("stable_diffusion")])
      [] role = "pos_node" ->
             Node("CLIPTextEncode",
                  [clip |-> Ref(ids["clip_node"], 0), text |-> Lit(params.prompt)])
      [] role = "neg_node" ->
             Node("CLIPTextEncode",
                  [clip |-> Ref(ids["clip_node"], 0), text |-> Lit(params.negative)])
      [] role = "load_img" ->
             Node("LoadImage", [image |-> Lit(PathName(image))])
      [] role = "vae_encode" ->
             Node("VAEEncode",
                  [vae |-> Ref(ids["vae_node"], 0), image |-> Ref(ids["load_img"], 0)])
      [] role = "ksampler" ->
             Node("KSampler", KSamplerInputs)
      [] role = "vae_decode" ->
             Node("VAEDecode",
                  [vae |-> Ref(ids["vae_node"], 0), samples |-> Ref(ids["ksampler"], 0)])
      [] role = "save" ->
             Node("SaveImage",
                  [images |-> Ref(ids["vae_decode"], 0),
                   filename_prefix |-> Lit("qwen_edit")])

\* <variable> = "1" for the first node, <variable> = n() for the others;
\* nodes[<variable>] = {...}
AddNode ==
    /\ bpc = "nodes"
    /\ Cardinality(DOMAIN ids) < Len(Roles)
    /\ LET role == Roles[Cardinality(DOMAIN ids) + 1]
           counter == IF role = "unet_node" THEN nid ELSE Bump(nid)
           id == IF role = "unet_node" THEN "1" ELSE Str(counter)
       IN  /\ nid' = counter
           /\ ids' = [r \in DOMAIN ids \cup {role} |-> IF r = role THEN id ELSE ids[r]]
           /\ nodes' = DictSet(nodes, id, NodeFor(role))
    /\ UNCHANGED <<bpc, image, filesystem, picked, params, build_outcome, submitter,
                   elsewhere>>

\* payload = {"prompt": nodes}; Path(args.out).write_text(json.dumps(payload)); return 0
WriteOutput ==
    /\ bpc = "nodes"
    /\ Cardinality(DOMAIN ids) = Len(Roles)
    /\ out_file' = <<[prompt |-> nodes]>>
    /\ bpc' = "done"
    /\ build_exit' = <<BUILD_OK>>
    /\ UNCHANGED <<image, asset_dirs, inputs_exists, disk, picked, graph,
                   build_error, submitter, elsewhere>>

BuilderNext ==
    \/ CheckDirs
    \/ PickAssets
    \/ CheckAssets
    \/ StageImage
    \/ InitGraph
    \/ AddNode
    \/ WriteOutput

BuilderSpec == BuilderInit /\ [][BuilderNext]_vars

(***************************************************************************)
(* pick_first on its own: any directories, missing ones too, and the calls *)
(* made twice.                                                             *)
(***************************************************************************)
PickInit ==
    /\ bpc = "call"
    /\ asset_dirs \in {f \in [Categories -> UNION {DirStates(c) : c \in Categories}] :
                          \A c \in Categories : f[c] \in DirStates(c)}
    /\ inputs_exists = FALSE
    /\ disk = EmptyDict
    /\ image = <<>>
    /\ out_file = <<>>
    /\ unet_name = None
    /\ vae_name = None
    /\ clip_name = None
    /\ NoGraph
    /\ build_exit = <<>>
    /\ build_error = ""
    /\ SubmitterIdle
    /\ FirstRun
    /\ ValidatorIdle

PickCall ==
    /\ bpc \in {"call", "called"}
    /\ PickAll
    /\ bpc' = IF bpc = "call" THEN "called" ELSE "called_again"
    /\ UNCHANGED <<image, filesystem, graph, build_outcome, submitter, elsewhere>>

PickSpec == PickInit /\ [][PickCall]_vars

(***************************************************************************)
(* scripts/comfy_submit.py, the way of the workflow document alone: read   *)
(* from the file, normalized, sent.                                        *)
(***************************************************************************)

\* A bare graph: some of the nodes "1" and "2" and of other top-level keys.
BareDocuments ==
    {d \in UNION {[S -> {"LoadImage", "KSampler", "SaveImage", "x"}] :
                     S \in SUBSET {"1", "2", "client_id"}} :
        /\ "1" \in DOMAIN d => d["1"] \in {"LoadImage", "KSampler"}
        /\ "2" \in DOMAIN d => d["2"] = "SaveImage"
        /\ "client_id" \in DOMAIN d => d["client_id"] = "x"}

\* d with the key "prompt" set to g
WithPrompt(d, g) ==
    [k \in DOMAIN d \cup {"prompt"} |-> IF k = "prompt" THEN g ELSE d[k]]

\* The documents a workflow file may hold: with and without a "prompt" key.
WorkflowDocuments ==
    BareDocuments \cup {WithPrompt(d, g) : d \in BareDocuments, g \in {Graph, EmptyDict}}

EnvelopeInit ==
    /\ pc = "load"
    /\ wf_exists = TRUE
    /\ timeout = 0
    /\ interval = 1
    /\ wf_document \in WorkflowDocuments
    /\ Fresh
    /\ BuilderIdle
    /\ FirstRun
    /\ ValidatorIdle

\* payload = json.load(f)
LoadDocument ==
    /\ pc = "load"
    /\ payload' = wf_document
    /\ pc' = "normalize"
    /\ UNCHANGED <<args, posts, post_resp, prompt_id, body, now, deadline, cycle,
                   history, sleeps, downloads, outcome, builder, elsewhere>>

\* if "prompt" not in payload: payload = {"prompt": payload}
NormalizePayload ==
    /\ pc = "normalize"
    /\ payload' = NormalizeEnvelope(payload)
    /\ pc' = "post"
    /\ UNCHANGED <<args, posts, post_resp, prompt_id, body, now, deadline, cycle,
                   history, sleeps, downloads, outcome, builder, elsewhere>>

\* requests.post(url, json=payload, timeout=60)
PostPayload ==
    /\ pc = "post"
    /\ posts' = posts + 1
    /\ body' = payload
    /\ pc' = "posted"
    /\ UNCHANGED <<args, payload, post_resp, prompt_id, now, deadline, cycle,
                   history, sleeps, downloads, outcome, builder, elsewhere>>

EnvelopeNext ==
    \/ LoadDocument
    \/ NormalizePayload
    \/ PostPayload

EnvelopeSpec == EnvelopeInit /\ [][EnvelopeNext]_vars

(***************************************************************************)
(* qwen_image_edit/cli/main.py: validate_image_path called once, on any of *)
(* the option values and over any of the file systems.                     *)
(***************************************************************************)
ValidateInit ==
    /\ v_pc = "call"
    /\ v_value \in {<<>>} \cup {<<v>> : v \in OptionValues}
    /\ v_fs \in SUBSET PossibleEntries
    /\ v_result = ReturnedNone
    /\ SubmitterIdle
    /\ BuilderIdle
    /\ FirstRun

\* callback=validate_image_path
Validate ==
    /\ v_pc = "call"
    /\ v_result' = validate_image_path(v_value, v_fs)
    /\ v_pc' = "done"
    /\ UNCHANGED <<v_value, v_fs, submitter, builder, rerun>>

ValidateSpec == ValidateInit /\ [][Validate]_vars

(***************************************************************************)
(* The two scripts one after the other: build_workflow.py runs, may run    *)
(* again with the same arguments over the same tree, and comfy_submit.py   *)
(* reads the document written, normalizes it and sends it.                 *)
(***************************************************************************)

\* In a second run the arguments are those of the first.
ParseSameArgs ==
    /\ InitGraph
    /\ (run = 2) => (params' = first_params)

\* build_workflow.py is started again: same image, same arguments, the tree as
\* the first run left it.
RunAgain ==
    /\ bpc = "done"
    /\ build_exit = <<BUILD_OK>>
    /\ run = 1
    /\ pc = "idle"
    /\ run' = 2
    /\ first_params' = params
    /\ first_out' = out_file
    /\ bpc' = "check_dirs"
    /\ unet_name' = None
    /\ vae_name' = None
    /\ clip_name' = None
    /\ params' = NoArgs
    /\ nid' = 0
    /\ ids' = EmptyDict
    /\ nodes' = <<>>
    /\ build_exit' = <<>>
    /\ build_error' = ""
    /\ UNCHANGED <<image, filesystem, submitter, validator>>

\* comfy_submit.py is started on the file the builder wrote: the file holds
\* json.dumps(payload), and json.load reads it.
OpenBuilt ==
    /\ pc = "idle"
    /\ bpc = "done"
    /\ build_exit = <<BUILD_OK>>
    /\ wf_exists' = TRUE
    /\ wf_document' = json_load(json_dumps(out_file[1]))
    /\ pc' = "load"
    /\ UNCHANGED <<timeout, interval, submission, now, deadline, cycle, history, sleeps,
                   downloads, outcome, builder, elsewhere>>

PipelineNext ==
    \/ CheckDirs
    \/ PickAssets
    \/ CheckAssets
    \/ StageImage
    \/ ParseSameArgs
    \/ AddNode
    \/ WriteOutput
    \/ RunAgain
    \/ OpenBuilt
    \/ LoadDocument
    \/ NormalizePayload
    \/ PostPayload

PipelineSpec == BuilderInit /\ [][PipelineNext]_vars

(***************************************************************************)
(* Vocabulary of the properties.                                           *)
(***************************************************************************)
NoViewRequest == \A k \in AllKeys : view_count[k] = 0

NoFileWritten == files = EmptyDict /\ \A k \in AllKeys : write_count[k] = 0

\* The polling loop has been entered: main() has used the POST response.
PollerStarted == posts = 1 /\ post_resp = NoResponse

\* The run is in a poll cycle whose history response carries a completed entry.
InCompletedCycle == pc = "collect" /\ entry.kind = "dict" /\ entry.completed = "True"

\* The file of every artifact written so far is in the output directory.
WrittenPresent ==
    \A d \in WellFormed :
        write_count[Key(d)] > 0 => outdir_exists /\ d.filename \in DOMAIN files

(***************************************************************************)
(* C1.  At most one view request is issued and at most one file write is   *)
(* performed per artifact key, whatever the server repeats; a descriptor   *)
(* whose key is in the seen set is skipped.                                *)
(***************************************************************************)
C1_AtMostOncePerKey ==
    /\ \A k \in AllKeys : view_count[k] <= 1 /\ write_count[k] <= 1
    /\ \A k \in seen_images : view_count[k] = 1 /\ write_count[k] = 1

\* A descriptor repeated in a later cycle has just been skipped.
C1_Witness ==
    /\ pc = "collect"
    /\ hist_entries >= 2
    /\ img \in WellFormed
    /\ Key(img) \in cycle_keys
    /\ ~any_new
    /\ view_count[Key(img)] = 1

(***************************************************************************)
(* C2 as stated.  In a poll cycle whose history response carries a         *)
(* completed entry, the poller returns 0 in that cycle: from such a cycle  *)
(* every step stays in the cycle or ends the run with status 0.            *)
(***************************************************************************)
C2_CompletedCycleReturnsZero ==
    [][InCompletedCycle =>
          \/ pc' = "collect"
          \/ pc' = "done" /\ exit_code' = <<EXIT_COMPLETED>>]_vars

(***************************************************************************)
(* C2 amended.  In a poll cycle whose history response carries a completed *)
(* entry, the poller returns 0 in that cycle, without sleeping and without *)
(* another history query, whether or not an artifact was new, unless the   *)
(* collection of that cycle raises: a new descriptor lacks a field, or a   *)
(* view request fails.                                                     *)
(***************************************************************************)
C2_CompletedCycleReturnsZeroUnlessRaised ==
    [][InCompletedCycle =>
          /\ UNCHANGED <<history, entry, hist_status>>
          /\ \/ pc' = "collect" /\ todo > 0 /\ todo' = todo - 1 /\ UNCHANGED outcome
             \/ /\ todo = 0
                /\ pc' = "done"
                /\ exit_code' = <<EXIT_COMPLETED>>
                /\ UNCHANGED <<now, downloads, any_new>>
             \/ /\ todo > 0
                /\ pc' = "done"
                /\ exit_code' = <<EXIT_EXCEPTION>>
                /\ Key(img') \notin seen_images
                /\ \/ error' = "RuntimeError" /\ DOMAIN img' # EssentialSet
                   \/ error' = "HTTPError" /\ DOMAIN img' = EssentialSet]_vars

\* The run has ended with 0 in a cycle that downloaded nothing new.
C2_Witness ==
    /\ pc = "done"
    /\ exit_code = <<EXIT_COMPLETED>>
    /\ entry.completed = "True"
    /\ entry.n_images > 0
    /\ ~any_new
    /\ seen_images # {}

C4_HistoryErrorIsRetried ==
    [][/\ (pc = "fetch" /\ hist_status' >= 400) =>
              /\ pc' = "sleep"
              /\ hist_queries' = hist_queries + 1
              /\ UNCHANGED <<downloads, outcome>>
       /\ pc = "sleep" =>
              /\ pc' = "loop"
              /\ now' = now + interval
              /\ UNCHANGED <<downloads, outcome, history>>
       /\ (pc = "loop" /\ now < deadline) =>
              /\ pc' = "fetch"
              /\ UNCHANGED <<downloads, outcome, history>>]_vars

\* After a download, a history query has been answered with an error status.
C4_Witness ==
    /\ pc = "sleep"
    /\ hist_status >= 400
    /\ seen_images # {}
    /\ exit_code = <<>>

(***************************************************************************)
(* C5 as stated.  When every history response before the last carried no   *)
(* entry and the last carries a completed entry that lists n well-formed   *)
(* descriptors, pairwise distinct, the run ends with status 0, having      *)
(* requested and written each of the n artifacts once.                     *)
(***************************************************************************)
C5_Premise ==
    /\ pc = "done"
    /\ hist_entries = 1
    /\ entry.kind = "dict"
    /\ entry.completed = "True"
    /\ cycle_wf
    /\ Cardinality(cycle_keys) = entry.n_images

C5_Conclusion ==
    /\ exit_code = <<EXIT_COMPLETED>>
    /\ seen_images = cycle_keys
    /\ \A k \in AllKeys :
          /\ view_count[k] = IF k \in cycle_keys THEN 1 ELSE 0
          /\ write_count[k] = IF k \in cycle_keys THEN 1 ELSE 0

C6_PromptIdFieldWins ==
    pc = "checkid" =>
        IF "prompt_id" \in DOMAIN post_resp.body
        THEN prompt_id = post_resp.body["prompt_id"]
        ELSE prompt_id = DictGet(post_resp.body, "promptid")

(***************************************************************************)
(* C6 amended.  Whenever the response has a prompt_id field whose value is *)
(* not empty (neither null nor the empty string) its value is the job id,  *)
(* whatever promptid is; otherwise the job id is the value of promptid,    *)
(* and None when promptid is absent too.                                   *)
(***************************************************************************)
C6_TruthyPromptIdWins ==
    pc = "checkid" =>
        IF /\ "prompt_id" \in DOMAIN post_resp.body
           /\ post_resp.body["prompt_id"] \notin {None, ""}
        THEN prompt_id = post_resp.body["prompt_id"]
        ELSE IF "promptid" \in DOMAIN post_resp.body
        THEN prompt_id = post_resp.body["promptid"]
        ELSE prompt_id = None

\* Both spellings are there with different values; prompt_id has won.
C6_Witness ==
    /\ pc = "checkid"
    /\ {"prompt_id", "promptid"} \subseteq DOMAIN post_resp.body
    /\ post_resp.body["prompt_id"] = "42"
    /\ post_resp.body["promptid"] = "7"
    /\ prompt_id = "42"

(***************************************************************************)
(* C7.  A JSON response to the submission that has neither prompt_id nor   *)
(* promptid ends the run with status 3 at once; a run that ends with       *)
(* status 3 has issued no history query and no view request and written    *)
(* no file.                                                                *)
(***************************************************************************)
C7_NoJobIdExitsThree ==
    /\ [][(/\ pc = "checkid"
           /\ "prompt_id" \notin DOMAIN post_resp.body
           /\ "promptid" \notin DOMAIN post_resp.body) =>
              /\ pc' = "done"
              /\ exit_code' = <<EXIT_NO_PROMPT_ID>>
              /\ UNCHANGED <<history, downloads, posts>>]_vars
    /\ [](exit_code = <<EXIT_NO_PROMPT_ID>> =>
              /\ pc = "done"
              /\ hist_queries = 0
              /\ NoViewRequest
              /\ NoFileWritten
              /\ ~outdir_exists)

\* The server answered {"id": "42"} and the run has ended with status 3.
C7_Witness ==
    /\ pc = "done"
    /\ exit_code = <<EXIT_NO_PROMPT_ID>>
    /\ post_resp.status = 200
    /\ DOMAIN post_resp.body = {"id"}
    /\ post_resp.body["id"] = "42"

(***************************************************************************)
(* C8 as stated.  A response to POST /prompt whose status is not 2xx       *)
(* aborts the run with a non-zero exit before polling: the run never       *)
(* enters the loop with a job id taken from it, and it ends having issued  *)
(* no history query and no view request and written no file.               *)
(***************************************************************************)
C8_Aborted ==
    /\ pc = "done"
    /\ exit_code # <<>>
    /\ exit_code # <<EXIT_COMPLETED>>
    /\ hist_queries = 0
    /\ NoViewRequest
    /\ NoFileWritten
    /\ ~outdir_exists

C8_NonSuccess ==
    /\ post_resp # NoResponse
    /\ ~(post_resp.status >= 200 /\ post_resp.status < 300)

C9_MissingWorkflowExitsTwo ==
    /\ ~wf_exists =>
          /\ pc \in {"start", "done"}
          /\ pc = "done" => exit_code = <<EXIT_NO_WORKFLOW>>
          /\ posts = 0
          /\ hist_queries = 0
          /\ NoViewRequest
          /\ NoFileWritten
          /\ ~outdir_exists
    /\ exit_code = <<EXIT_NO_WORKFLOW>> => ~wf_exists

\* The run has ended on a missing workflow file.
C9_Witness ==
    /\ ~wf_exists
    /\ pc = "done"
    /\ exit_code = <<EXIT_NO_WORKFLOW>>
    /\ payload = EmptyDict

(***************************************************************************)
(* C10.  Visiting a descriptor whose key is not in the seen set and that   *)
(* lacks any of filename, subfolder, type ends the run with a RuntimeError *)
(* that names exactly the missing fields; no view request is issued, no    *)
(* file is written and the seen set is unchanged.                          *)
(***************************************************************************)
C10_MalformedDescriptorRaises ==
    [][(/\ pc = "collect"
        /\ todo > 0
        /\ Key(img') \notin seen_images
        /\ DOMAIN img' # EssentialSet) =>
           /\ pc' = "done"
           /\ exit_code' = <<EXIT_EXCEPTION>>
           /\ error' = "RuntimeError"
           /\ {err_missing'[i] : i \in 1..Len(err_missing')} = EssentialSet \ DOMAIN img'
           /\ Len(err_missing') = Cardinality(EssentialSet \ DOMAIN img')
           /\ UNCHANGED downloads]_vars

\* After a download, a descriptor without subfolder and type has ended the run.
C10_Witness ==
    /\ pc = "done"
    /\ error = "RuntimeError"
    /\ err_missing = <<"subfolder", "type">>
    /\ DOMAIN img = {"filename"}
    /\ seen_images # {}
    /\ Key(img) \notin seen_images

(***************************************************************************)
(* C11.  A run submits once and then only polls: at most one POST /prompt  *)
(* is ever issued, and none once polling has begun; no history query is    *)
(* issued before a job id is obtained, and every history query asks for    *)
(* that one job id, which does not change; a view request is issued only   *)
(* while polling; once the run has ended, completed or timed out, no       *)
(* further request is issued.                                              *)
(***************************************************************************)
C11_SubmitOnceThenPoll ==
    /\ [](posts <= 1)
    /\ []((hist_queries > 0 \/ ~NoViewRequest) =>
              /\ posts = 1
              /\ Truthy(prompt_id)
              /\ hist_queries > 0
              /\ hist_ids = {prompt_id})
    /\ [][posts' # posts => (pc = "submit" /\ hist_queries = 0)]_vars
    /\ [][hist_queries > 0 => prompt_id' = prompt_id]_vars
    /\ [][hist_queries' # hist_queries =>
              (pc = "fetch" /\ hist_ids' = {prompt_id})]_vars
    /\ [][exit_code # <<>> => UNCHANGED <<posts, history, view_count>>]_vars

\* A run that polled twice for job "42", downloaded an artifact and timed out.
C11_Witness ==
    /\ pc = "done"
    /\ exit_code = <<EXIT_TIMEOUT>>
    /\ posts = 1
    /\ hist_queries = 2
    /\ hist_ids = {"42"}
    /\ seen_images # {}

(***************************************************************************)
(* C12.  A run with timeout T and interval I issues at most ceil(T/I)      *)
(* history queries (none when T is not positive); a run that times out     *)
(* and whose requests all took no time has issued exactly ceil(T/I) of     *)
(* them: with T = 2 and I = 1 (1 s and 0.5 s in half-second ticks), two.   *)
(***************************************************************************)
CeilDiv(a, b) == (a + b - 1) \div b

MaxPolls == IF timeout > 0 THEN CeilDiv(timeout, interval) ELSE 0

C12_PollCountBounded ==
    /\ hist_queries <= MaxPolls
    /\ (exit_code = <<EXIT_TIMEOUT>> /\ now = hist_queries * interval) =>
           hist_queries = MaxPolls

\* T = 2, I = 1, no latency: the run timed out after two history queries.
C12_Witness ==
    /\ exit_code = <<EXIT_TIMEOUT>>
    /\ timeout = 2
    /\ interval = 1
    /\ now = 2
    /\ hist_queries = 2

(***************************************************************************)
(* C13.  pick_first returns the smallest name, in the order of str, among  *)
(* the regular files of the directory whose suffix is an allowed one,      *)
(* whatever the order of the listing and in every call; it returns None    *)
(* exactly when the directory is missing or holds no such file.            *)
(***************************************************************************)
Candidates(c) ==
    {e.name : e \in {x \in asset_dirs[c].entries :
                        x.is_file /\ Suffix(x.name) \in SuffixesOf(c)}}

PickedFor(c) ==
    CASE c = "unet" -> unet_name
      [] c = "vae" -> vae_name
      [] c = "text_encoders" -> clip_name

C13_PickFirstIsSmallest ==
    bpc \in {"called", "called_again"} =>
        \A c \in Categories :
            /\ PickedFor(c) = None <=>
                   (~asset_dirs[c].exists \/ Candidates(c) = {})
            /\ PickedFor(c) # None =>
                   /\ PickedFor(c) \in Candidates(c)
                   /\ \A other \in Candidates(c) \ {PickedFor(c)} :
                          StrLess(PickedFor(c), other)

\* Second call: "B.gguf" before "c.gguf" and the directory "a.gguf"; a missing
\* directory; a directory with a hidden file only.
C13_Witness ==
    /\ bpc = "called_again"
    /\ asset_dirs["unet"].entries = UnetEntries
    /\ unet_name = "B.gguf"
    /\ ~asset_dirs["vae"].exists
    /\ vae_name = None
    /\ asset_dirs["text_encoders"].entries = {File(".gguf")}
    /\ clip_name = None

(***************************************************************************)
(* C14 as stated.  The builder succeeds whenever each of the three asset   *)
(* directories holds a matching file and the input image exists; when      *)
(* exactly one of them holds no matching file it fails with a message that *)
(* names that one.                                                         *)
(***************************************************************************)
HasAsset(c) == Candidates(c) # {}

ImageExists == PathExists(image, disk)

NamesCategory(message, c) == message \in {NoAssetMessage(c), DirMissingMessage(c)}

C14_SucceedsOrNamesCategory ==
    bpc = "done" =>
        /\ ((\A c \in Categories : HasAsset(c)) /\ ImageExists) =>
               build_exit = <<BUILD_OK>>
        /\ \A c \in Categories :
               (~HasAsset(c) /\ \A o \in Categories \ {c} : HasAsset(o)) =>
                   /\ build_exit = <<BUILD_FAILED>>
                   /\ NamesCategory(build_error, c)

(***************************************************************************)
(* C15.  No step of the checks (directories, assets, source image) writes  *)
(* to the file system, the step that fails writes nothing, and once        *)
(* something has been written the builder no longer fails: a failed run    *)
(* leaves the output document and the inputs directory as they were.       *)
(***************************************************************************)
C15_ChecksPrecedeWrites ==
    /\ [][(bpc \in {"check_dirs", "pick", "check_assets"}) =>
              UNCHANGED filesystem]_vars
    /\ [][build_exit' = <<BUILD_FAILED>> => UNCHANGED filesystem]_vars
    /\ [][filesystem' # filesystem =>
              (bpc \in {"stage", "nodes"} /\ build_exit' # <<BUILD_FAILED>>)]_vars
    /\ [][(bpc \in {"graph", "nodes"}) => build_exit' # <<BUILD_FAILED>>]_vars
    /\ [](build_exit = <<BUILD_FAILED>> => out_file \in {<<>>, <<OldDocument>>})

\* The source image is missing: the run failed, the worn output document and the
\* file of the same name in the inputs directory are still there.
C15_Witness ==
    /\ bpc = "done"
    /\ build_error = NoImageMessage
    /\ image = <<"pics", "cat.png">>
    /\ out_file = <<OldDocument>>
    /\ Join(INPUTS_DIR, "cat.png") \in DOMAIN disk
    /\ disk[Join(INPUTS_DIR, "cat.png")] = "OLD"

(***************************************************************************)
(* C16.  At every moment of the construction, every input of a node that   *)
(* is a reference [node id, slot] names a node that is in the graph and    *)
(* whose id is smaller than the id of the node that holds the reference:   *)
(* the graph has no cycle, whatever the arguments.                         *)
(***************************************************************************)
\* int(id)
IdNum(id) == CHOOSE k \in 0..(2 * Len(Roles)) : Str(k) = id

References(node) ==
    {node.inputs[f] : f \in {g \in DOMAIN node.inputs : node.inputs[g].kind = "ref"}}

C16_ReferencesPointBack ==
    \A i \in DOMAIN nodes :
        \A r \in References(nodes[i].value) :
            /\ r.node \in DictKeys(nodes)
            /\ IdNum(r.node) < IdNum(nodes[i].key)

\* The finished graph: the sampler takes its latent from node 7, the decoder its
\* samples from node 8.
C16_Witness ==
    /\ bpc = "done"
    /\ build_exit = <<BUILD_OK>>
    /\ DictItem(nodes, "8").inputs["latent_image"] = Ref("7", 0)
    /\ DictItem(nodes, "9").inputs["samples"] = Ref("8", 0)
    /\ params.prompt = " "

(***************************************************************************)
(* C17.  The counter starts at the first id and only grows; the nodes are  *)
(* created under the ids "1", "2", ..., in this order of kinds: UNet       *)
(* loader, VAE loader, text-encoder loader, positive encoder, negative     *)
(* encoder, image loader, VAE encoder, sampler, VAE decoder, image saver;  *)
(* no assignment overwrites a node; the graph written has exactly the ten  *)
(* nodes "1" to "10".                                                      *)
(***************************************************************************)
ExpectedIds == <<"1", "2", "3", "4", "5", "6", "7", "8", "9", "10">>

ExpectedKinds ==
    <<"UnetLoaderGGUF", "VAELoader", "CLIPLoaderGGUF", "CLIPTextEncode",
      "CLIPTextEncode", "LoadImage", "VAEEncode", "KSampler", "VAEDecode",
      "SaveImage">>

C17_TenNodesInOrder ==
    /\ bpc \in {"nodes", "done"} /\ build_exit # <<BUILD_FAILED>> =>
          /\ Len(nodes) = Cardinality(DOMAIN ids)
          /\ Len(nodes) <= Len(ExpectedIds)
          /\ nid = IF nodes = <<>> THEN FIRST_ID ELSE Len(nodes)
          /\ \A i \in DOMAIN nodes :
                 /\ nodes[i].key = ExpectedIds[i]
                 /\ nodes[i].value.class_type = ExpectedKinds[i]
                 /\ ids[Roles[i]] = ExpectedIds[i]
    /\ build_exit = <<BUILD_OK>> =>
          /\ Len(nodes) = Len(ExpectedIds)
          /\ out_file = <<[prompt |-> nodes]>>

\* The written document holds ten nodes; the last is the image saver "10".
C17_Witness ==
    /\ build_exit = <<BUILD_OK>>
    /\ Len(nodes) = 10
    /\ nid = 10
    /\ nodes[10].key = "10"
    /\ nodes[10].value.class_type = "SaveImage"
    /\ out_file # <<OldDocument>>

(***************************************************************************)
(* C18.  Staging fails, writing nothing, if the source path does not       *)
(* exist.  Otherwise the inputs directory then holds a file under the      *)
(* source's base name with the bytes of the source, whatever file of that  *)
(* name lay there before, and no other file has changed; when source and   *)
(* target resolve to the same path nothing is copied and the file is as    *)
(* it was.  The LoadImage node names the staged base name.                 *)
(***************************************************************************)
C18_StagingCopiesByBaseName ==
    /\ [][bpc = "stage" =>
              IF ~PathExists(image, disk)
              THEN /\ build_exit' = <<BUILD_FAILED>>
                   /\ build_error' = NoImageMessage
                   /\ UNCHANGED filesystem
              ELSE /\ build_exit' = <<>>
                   /\ inputs_exists'
                   /\ DOMAIN disk' = DOMAIN disk \cup {Join(INPUTS_DIR, PathName(image))}
                   /\ disk'[Join(INPUTS_DIR, PathName(image))] = disk[Resolve(image)]
                   /\ \A q \in DOMAIN disk \ {Join(INPUTS_DIR, PathName(image))} :
                          disk'[q] = disk[q]
                   /\ Resolve(image) = Join(INPUTS_DIR, PathName(image)) =>
                          disk' = disk]_vars
    /\ []("load_img" \in DOMAIN ids =>
              /\ DictItem(nodes, ids["load_img"]).class_type = "LoadImage"
              /\ DictItem(nodes, ids["load_img"]).inputs["image"] = Lit("cat.png")
              /\ Join(INPUTS_DIR, "cat.png") \in DOMAIN disk
              /\ disk[Join(INPUTS_DIR, "cat.png")] = disk[Resolve(image)])

\* An image from outside the inputs directory has been staged.
C18_Witness ==
    /\ bpc = "graph"
    /\ image = <<"pics", "cat.png">>
    /\ disk[Join(INPUTS_DIR, "cat.png")] = "CAT"
    /\ disk[<<"pics", "cat.png">>] = "CAT"

(***************************************************************************)
(* C19 as stated.  A run that finds the asset directories in order and the *)
(* source image in place, but no inputs directory, does not fail: it ends  *)
(* with the inputs directory created and the image staged in it.           *)
(***************************************************************************)
C19_MissingInputsDirIsCreated ==
    /\ [][(/\ bpc = "check_dirs"
           /\ ~inputs_exists
           /\ \A c \in Categories : HasAsset(c)
           /\ ImageExists) => build_exit' = <<>>]_vars
    /\ []((/\ bpc = "done"
           /\ \A c \in Categories : HasAsset(c)
           /\ ImageExists) =>
              /\ inputs_exists
              /\ Join(INPUTS_DIR, PathName(image)) \in DOMAIN disk)

(***************************************************************************)
(* C20.  Normalizing leaves a document that has a top-level key "prompt"   *)
(* as it is and turns any other document d into {"prompt": d}; the body    *)
(* sent to POST /prompt is the normalized document and so always has a     *)
(* top-level key "prompt"; normalizing a normalized document changes       *)
(* nothing.                                                                *)
(***************************************************************************)
C20_EnvelopeNormalized ==
    /\ [][pc = "normalize" =>
              /\ "prompt" \in DOMAIN wf_document => payload' = wf_document
              /\ "prompt" \notin DOMAIN wf_document =>
                     /\ DOMAIN payload' = {"prompt"}
                     /\ payload'["prompt"] = wf_document]_vars
    /\ [](pc \in {"post", "posted"} =>
              /\ "prompt" \in DOMAIN payload
              /\ NormalizeEnvelope(payload) = payload)
    /\ [](pc = "posted" =>
              /\ "prompt" \in DOMAIN body
              /\ body = payload
              /\ posts = 1)

\* A bare graph with a client_id beside its nodes was wrapped whole and sent.
C20_Witness ==
    /\ pc = "posted"
    /\ DOMAIN wf_document = {"1", "2", "client_id"}
    /\ DOMAIN body = {"prompt"}
    /\ body["prompt"] = wf_document

(***************************************************************************)
(* C23.  A run ends with status 0 only in a cycle whose history response   *)
(* carried the job's entry with status.completed being the boolean true:   *)
(* an absent entry, an entry without status, the value false and a truthy  *)
(* value that is not the boolean (1) never end the run with status 0.      *)
(***************************************************************************)
C23_ZeroOnlyIfCompletedTrue ==
    exit_code = <<EXIT_COMPLETED>> =>
        /\ hist_entries >= 1
        /\ hist_status = 200
        /\ entry.kind = "dict"
        /\ entry.completed = "True"
        /\ entry.completed \notin {"False", "None", "1"}

\* Two responses carried the entry; only the last reported completion, and the
\* run ended with status 0 there.
C23_Witness ==
    /\ exit_code = <<EXIT_COMPLETED>>
    /\ hist_entries = 2
    /\ hist_queries = 2
    /\ entry.completed = "True"
    /\ entry.n_images = 0

(***************************************************************************)
(* C28 as stated.  At any point of a run the number of files in the output *)
(* directory equals the number of keys in the seen set.                    *)
(***************************************************************************)
C28_OneFilePerKey == Cardinality(DOMAIN files) = Cardinality(seen_images)

(***************************************************************************)
(* C29.  With a timeout that is not positive no history query and no view  *)
(* request is ever issued, and a run that got its job id ends with status  *)
(* 4, the graph having been submitted.  Status 4 is given only at the      *)
(* start of a cycle, at or after the deadline, with no response in hand:   *)
(* a cycle that has begun is carried through, so a run may download and    *)
(* return 0 after the deadline.                                            *)
(***************************************************************************)
C29_DeadlineOnlyAtCycleStart ==
    /\ timeout <= 0 =>
          /\ hist_queries = 0
          /\ NoViewRequest
          /\ (pc = "done" /\ PollerStarted) => exit_code = <<EXIT_TIMEOUT>>
    /\ exit_code = <<EXIT_TIMEOUT>> =>
          /\ posts = 1
          /\ body = payload
          /\ now >= deadline
          /\ entry = NoEntry
          /\ hist_status = NoStatus
          /\ cycle_keys = {}
    /\ pc \in {"fetch", "collect", "sleep"} => exit_code = <<>>

\* A cycle begun before the deadline downloaded an artifact and returned 0 after it.
C29_Witness ==
    /\ exit_code = <<EXIT_COMPLETED>>
    /\ timeout > 0
    /\ now > deadline
    /\ any_new
    /\ hist_queries = 1

(***************************************************************************)
(* C24.  Every cycle that does not end the run sleeps once before the next *)
(* history query: at the loop head and at a query the poller has slept as  *)
(* often as it has queried, inside a cycle once less; this holds on all    *)
(* three paths (history error, entry absent, entry not completed) and      *)
(* whether or not the cycle found new artifacts.  Each sleep lasts the     *)
(* interval: the clock has advanced by the sleeps times the interval, plus *)
(* at most the latency of the requests made.                               *)
(***************************************************************************)
RECURSIVE SumOver(_, _)
SumOver(f, S) ==
    IF S = {} THEN 0
    ELSE LET k == CHOOSE x \in S : TRUE IN f[k] + SumOver(f, S \ {k})

RequestsTimed == hist_queries + SumOver(view_count, AllKeys)

C24_OneSleepPerCycle ==
    /\ pc \in {"loop", "fetch"} => sleeps = hist_queries
    /\ pc \in {"collect", "sleep"} => sleeps = hist_queries - 1
    /\ pc = "done" => sleeps \in {hist_queries, hist_queries - 1}
    /\ (pc = "done" /\ exit_code = <<EXIT_TIMEOUT>>) => sleeps = hist_queries
    /\ hist_queries = 0 => sleeps = 0
    /\ now >= sleeps * interval
    /\ now <= sleeps * interval + MaxLatency * RequestsTimed

\* Two cycles, one without an entry for the job and one whose entry gave a new
\* artifact but no completion; a sleep after each, then the timeout.
C24_Witness ==
    /\ exit_code = <<EXIT_TIMEOUT>>
    /\ interval = 1
    /\ hist_queries = 2
    /\ sleeps = 2
    /\ hist_entries = 1
    /\ seen_images # {}
    /\ now = 2

(***************************************************************************)
(* C30.  A view request that is not followed by the write of its file has  *)
(* ended the run: the run stopped there with an HTTPError and status 1, it *)
(* is not retried (one request for that key), the key is not in the seen   *)
(* set and no file was written for it, and the artifacts written before    *)
(* are still in the output directory.                                      *)
(***************************************************************************)
C30_ViewErrorIsFatal ==
    /\ \A k \in AllKeys :
          view_count[k] # write_count[k] =>
              /\ pc = "done"
              /\ exit_code = <<EXIT_EXCEPTION>>
              /\ error = "HTTPError"
              /\ k = Key(img)
              /\ k \notin seen_images
              /\ view_count[k] = 1
              /\ write_count[k] = 0
              /\ WrittenPresent
    /\ (error = "HTTPError" /\ hist_queries > 0) =>
          /\ hist_status = 200
          /\ view_count[Key(img)] # write_count[Key(img)]

\* The view request for b.png failed after a.png had been written: the run has
\* ended, a.png is still there.
C30_Witness ==
    /\ pc = "done"
    /\ error = "HTTPError"
    /\ img \in WellFormed
    /\ img.filename = "b.png"
    /\ view_count[Key(img)] = 1
    /\ write_count[Key(img)] = 0
    /\ DOMAIN files = {"a.png"}
    /\ Cardinality(seen_images) = 1

(***************************************************************************)
(* C25.  Every run ends: whatever the history responses, the process       *)
(* eventually stops, and a run that polled stops with status 0             *)
(* (completed), 4 (timed out) or 1 (an exception).                         *)
(***************************************************************************)
C25_PollingTerminates ==
    /\ <>(pc = "done" /\ exit_code # <<>>)
    /\ [](pc \in {"loop", "fetch", "collect", "sleep"} => <>(pc = "done"))
    /\ []((pc = "done" /\ PollerStarted) =>
              exit_code \in {<<EXIT_COMPLETED>>, <<EXIT_TIMEOUT>>, <<EXIT_EXCEPTION>>})

\* A run whose two history queries were both refused has timed out.
C25_Witness ==
    /\ pc = "done"
    /\ exit_code = <<EXIT_TIMEOUT>>
    /\ hist_queries = 2
    /\ hist_entries = 0
    /\ sleeps = 2


\* A regular file at the path.
IsFileAt(p, fs) == \E e \in fs : e.path = p /\ e.is_file

\* The value with surrounding quotes and spaces stripped, and the value with
\* its escaped spaces unescaped, each as a resolved path.
StrippedPath == ResolveAbsolute(ExpandUser(Strip(v_value[1], {"\"", "'", " "})))

UnescapedPath == ResolveAbsolute(ExpandUser(UnescapeSpaces(v_value[1])))

\* The file the value names, if any: <<path>> or <<>>.
FileNamed ==
    IF IsFileAt(StrippedPath, v_fs) THEN <<StrippedPath>>
    ELSE IF IsFileAt(UnescapedPath, v_fs) THEN <<UnescapedPath>>
    ELSE <<>>

SuffixSupported(p) == Lower(PathSuffix(p)) \in supported_formats

\* C22: validate_image_path returns None for None; for another value it returns
\* the resolved path when a file exists at the stripped (or unescaped) value and
\* its suffix, case-insensitively, is a supported one; it raises "Image file not
\* found" when no such file exists, and "Unsupported image format" when the file
\* exists and its suffix is not supported.
C22_ValidatesImageFile ==
    v_pc = "done" =>
        IF v_value = <<>> THEN v_result = ReturnedNone
        ELSE IF FileNamed = <<>> THEN v_result.kind = "Image file not found"
        ELSE IF SuffixSupported(FileNamed[1]) THEN v_result = Returned(FileNamed[1])
        ELSE v_result.kind = "Unsupported image format"


\* The graph of the document written, and the node a reference of it leads to.
WrittenGraph == out_file[1].prompt

RefTarget(input) == DictItem(WrittenGraph, input.node)

IsRefTo(input, class_type) ==
    /\ input.kind = "ref"
    /\ input.slot = 0
    /\ input.node \in DictKeys(WrittenGraph)
    /\ RefTarget(input).class_type = class_type

\* The encoder a reference leads to, and that its text is the given one.
IsEncoderOf(input, text) ==
    /\ IsRefTo(input, "CLIPTextEncode")
    /\ RefTarget(input).inputs.text = Lit(text)
    /\ IsRefTo(RefTarget(input).inputs.clip, "CLIPLoaderGGUF")

Samplers ==
    {k \in DictKeys(WrittenGraph) : DictItem(WrittenGraph, k).class_type = "KSampler"}

BuiltOk == bpc = "done" /\ build_exit = <<BUILD_OK>>

\* C26: in every built graph the one sampler takes its model from the
\* primary-model loader, its positive input from the encoder of the user
\* prompt, its negative input from the encoder of the negative prompt, its
\* latent from the image-to-latent encoder; both encoders take the text-encoder
\* loader; steps and cfg are the user's, seed, sampler and scheduler are fixed.
C26_SamplerWiring ==
    BuiltOk =>
        /\ Cardinality(Samplers) = 1
        /\ \A k \in Samplers :
               LET inp == DictItem(WrittenGraph, k).inputs
               IN  /\ IsRefTo(inp.model, "UnetLoaderGGUF")
                   /\ IsEncoderOf(inp.positive, params.prompt)
                   /\ IsEncoderOf(inp.negative, params.negative)
                   /\ IsRefTo(inp.latent_image, "VAEEncode")
                   /\ inp.steps = Lit(params.steps)
                   /\ inp.cfg = Lit(params.cfg)
                   /\ inp.seed = Lit(42)
                   /\ inp.sampler_name = Lit("euler")
                   /\ inp.scheduler = Lit("karras")

\* A graph is built for a prompt and a negative prompt that differ.
C26_Witness == BuiltOk /\ params.prompt # params.negative


\* C27: a second run of the builder with the same image and arguments over the
\* unchanged asset tree ends as the first did and leaves the same document at
\* args.out: same node ids in the same order, same kinds, literals, references.
C27_BuilderDeterministic ==
    (run = 2 /\ bpc = "done") => (build_exit = <<BUILD_OK>> /\ out_file = first_out)

\* The second run has written its document, and the directory it picked the
\* primary model from holds more than one candidate.
C27_Witness ==
    /\ run = 2
    /\ BuiltOk
    /\ Cardinality({e \in asset_dirs["unet"].entries : e.is_file}) > 1

\* C21: the body the submitter sends for the document the builder wrote has the
\* one key "prompt", and under it the node mapping the builder assembled: the
\* same ids in the same order, each with the same kind and inputs; the mapping
\* is not wrapped a second time.
C21_RoundTrip ==
    (pc = "posted" /\ BuiltOk) =>
        /\ body = payload
        /\ DOMAIN body = {"prompt"}
        /\ "prompt" \notin DictKeys(body.prompt)
        /\ body.prompt = nodes

\* The written document was sent, with a step count of two digits.
C21_Witness == pc = "posted" /\ BuiltOk /\ posts = 1 /\ params.steps >= 10

=============================================================================
